---- MODULE Spec2Model ----
(***************************************************************************)
(* The authentication controller (controllers/auth.controller.js): sign-up, *)
(* sign-in with the 5-strike lockout, sign-out, forgot/reset password and   *)
(* e-mail verification, over a document store of Accounts, an append-only   *)
(* login log, signed expiring tokens and a mail transport.                  *)
(*                                                                          *)
(* Every handler is an async function: it runs without interruption from    *)
(* one await to the next.  A handler is modelled as a step function over    *)
(* the shared world (store, log, tokens handed out, mail sent) and the      *)
(* request's own record (its inputs, its loaded document, its position).    *)
(* One step performs the pending awaited call and the local code that       *)
(* follows it up to the next awaited call on shared state.                  *)
(* A response is the value of the step function, not part of the state: a   *)
(* claim about a response is stated of Run at every reachable state.        *)
(*   Spec     runs each handler to completion (requests served one by one). *)
(*   SpecConc lets every client have a request in flight and interleaves    *)
(*            the requests' steps.                                          *)
(*   SpecRace does the same for three clients sending signIn and            *)
(*            resetPassword requests, from a state SpecConc reaches.        *)
(***************************************************************************)
EXTENDS Integers, Sequences, FiniteSets, Bags, TLC

VARIABLES
    users,      \* the User collection: a sequence of documents, _id = index
    logs,       \* the LoginLogs collection: a bag of entries
    tokens,     \* the tokens handed to clients (by mail or in a response)
    guesses,    \* per Account, the wrong passwords compared since its counter
                \* was last cleared (kept for the analysis, read by no handler)
    now,        \* the clock
    reqs,       \* the request each client has in flight (SpecConc)
    streak      \* the run of wrong-password sign-ins in progress

vars == <<users, logs, tokens, guesses, now, reqs, streak>>

\* ------------------------------------------------------------- bounds
MaxTime == 2        \* the clock runs 0..MaxTime
MaxLogs == 5        \* signIn requests are accepted while the log is shorter
MaxUsers == 2       \* capacity of the store (more than there are emails)

\* ------------------------------------------------------------- inputs
SignUpEmails == {"a@x.com"}                 \* the emails that sign up
Emails == SignUpEmails \cup {"b@x.com"}     \* and one that never does
Passwords == {"p1", "p2"}
Names == {"A"}
Clients == {"c1", "c2"}       \* each has at most one request in flight
Absent == "<absent>"          \* a body field that is undefined or empty
Null == "<null>"

\* ------------------------------------------------------------- constants
LockThreshold == 5            \* user.loginAttempts >= 5
SaltRounds == 10              \* bcrypt.genSalt(10)
ResetExpiresIn == 1           \* expiresIn: "1h"
\* The clock counts reset lifetimes.  The session/verification lifetime is
\* configuration (config/env.js), longer than the reset lifetime (the mail
\* of line 64 speaks of 24 hours); no handler reads its length.
JWT_EXPIRES_IN == 2
JWT_SECRET == "JWT_SECRET"

\* ------------------------------------------------------------- bcrypt
\* bcrypt.hash(password, salt): a one-way digest of the plaintext.
Hash(p) == <<"$2a$", SaltRounds, p>>
\* bcrypt.compare(password, hash)
Compare(p, h) == h = Hash(p)

\* ------------------------------------------------------------- jwt
NoToken == [userId |-> 0, exp |-> 0, iss |-> "none", sig |-> "none"]
\* A token signed with another secret (a forgery).
ForgedToken == [userId |-> 1, exp |-> MaxTime + 9, iss |-> "client", sig |-> "other"]
\* jwt.sign({userId}, JWT_SECRET, {expiresIn}); iss records the issuing
\* handler for the analysis only: the payload carries no purpose.
Sign(uid, ttl, t, iss) == [userId |-> uid, exp |-> t + ttl, iss |-> iss, sig |-> JWT_SECRET]
\* Mutant: a token is still accepted at the instant it expires.
VerifyAtExpiry(tok, t) == tok.sig = JWT_SECRET /\ t <= tok.exp
\* Mutant: only tokens issued by forgotPassword are accepted.
VerifyResetOnly(tok, t) ==
    tok.sig = JWT_SECRET /\ t < tok.exp /\ tok.iss = "forgotPassword"
\* jwt.verify(token, JWT_SECRET) does not throw
Verify(tok, t) == tok.sig = JWT_SECRET /\ t < tok.exp

\* ------------------------------------------------------------- store
NoDoc == [name |-> Null, email |-> Null, password |-> <<"none", 0, "">>,
          isVerified |-> FALSE, isLocked |-> FALSE, loginAttempts |-> 0]

\* User.findOne({email}): the _id of the first matching document, 0 if none.
FindOne(us, e) ==
    IF \E i \in 1..Len(us) : us[i].email = e
    THEN CHOOSE i \in 1..Len(us) :
            us[i].email = e /\ \A j \in 1..(i - 1) : us[j].email # e
    ELSE 0

\* User.findById(id): the _id itself if the document exists, else 0.
FindById(us, id) == IF id \in 1..Len(us) THEN id ELSE 0

\* Mutant: no unique index.
DuplicateKeyNone(us, e) == FALSE

\* The unique index on email rejects a second document with the same email.
DuplicateKey(us, e) == \E i \in 1..Len(us) : us[i].email = e

\* User.create({name, email, password, isVerified: false}) with the schema
\* defaults isLocked = false, loginAttempts = 0.
NewDoc(n, e, h) == [name |-> n, email |-> e, password |-> h,
                    isVerified |-> FALSE, isLocked |-> FALSE, loginAttempts |-> 0]

\* Mutant: save writes the whole loaded document back.
SaveWhole(us, id, doc, dirty) == [us EXCEPT ![id] = doc]

\* Mutant: save applies a raised loginAttempts as an increment of the stored
\* counter ($inc) instead of writing the loaded value plus one.
SaveIncrement(us, id, doc, dirty) ==
    [us EXCEPT ![id] =
        [f \in DOMAIN us[id] |->
            IF f \notin dirty THEN us[id][f]
            ELSE IF f = "loginAttempts" /\ doc[f] > 0 THEN us[id][f] + 1
            ELSE doc[f]]]

\* user.save() on a loaded document: the modified paths are $set on the
\* stored document; the other paths are not written.
Save(us, id, doc, dirty) ==
    [us EXCEPT ![id] =
        [f \in DOMAIN us[id] |-> IF f \in dirty THEN doc[f] ELSE us[id][f]]]

\* ------------------------------------------------------------- requests
NoResp == [code |-> 0, via |-> "none", msg |-> "", remaining |-> -1, token |-> NoToken]

Idle == [op |-> "idle", pc |-> "idle", name |-> Null, email |-> Null,
         password |-> Null, confirmPassword |-> Null, token |-> NoToken,
         mailOk |-> TRUE, uid |-> 0, user |-> NoDoc, dirty |-> {}, sent |-> 0,
         tried |-> 0,
         tok |-> NoToken, resp |-> NoResp]

NewReq(op, pc, n, e, p, c, t, ok) ==
    [Idle EXCEPT !.op = op, !.pc = pc, !.name = n, !.email = e, !.password = p,
                 !.confirmPassword = c, !.token = t, !.mailOk = ok]

\* The handlers' inputs: req.body and req.params.
SignUpReq(n, e, p, c, ok) == NewReq("signUp", "findOne", n, e, p, c, NoToken, ok)
SignInReq(e, p) == NewReq("signIn", "findOne", Null, e, p, Null, NoToken, TRUE)
SignOutReq == NewReq("signOut", "start", Null, Null, Null, Null, NoToken, TRUE)
ForgotPasswordReq(e, ok) == NewReq("forgotPassword", "findOne", Null, e, Null, Null, NoToken, ok)
ResetPasswordReq(tk, p) == NewReq("resetPassword", "findById", Null, Null, p, Null, tk, TRUE)
VerifyEmailReq(tk) == NewReq("verifyEmail", "findById", Null, Null, Null, Null, tk, TRUE)

\* next(error) with error.statusCode = code
Fail(q, code, msg) ==
    [q EXCEPT !.pc = "done",
              !.resp = [NoResp EXCEPT !.code = code, !.via = "next", !.msg = msg]]

\* res.status(code).json({message, data: {token}})
Reply(q, code, msg, tok) ==
    [q EXCEPT !.pc = "done",
              !.resp = [NoResp EXCEPT !.code = code, !.via = "res", !.msg = msg,
                                      !.token = tok]]

\* An error thrown by a collaborator and caught by the handler's catch:
\* next(error) with no statusCode of the handler's own.
Thrown(q, msg) == Fail(q, 500, msg)

\* Load a document into the request: q.user is the in-memory copy, q.dirty
\* the paths modified since loading.
Load(q, us, id) == [q EXCEPT !.uid = id, !.user = us[id], !.dirty = {}]

\* user.<path> = val: the path is marked modified when the value changes.
Assign(q, path, val) ==
    IF q.user[path] = val THEN q
    ELSE [q EXCEPT !.user = [@ EXCEPT ![path] = val], !.dirty = @ \cup {path}]

\* A step's result: the world after it and the request after it.
R(w, q) == [w |-> w, q |-> q]

\* transporter.sendMail(mailOptions) accepted the mail carrying tok: the
\* token is in the recipient's hands, and the request has sent one more mail.
SendMail(w, q) ==
    R([w EXCEPT !.tokens = @ \cup {q.tok}],
      [q EXCEPT !.sent = @ + 1, !.tried = @ + 1])

\* Mutant: a failed send is swallowed and the handler answers as if sent.
MailFailedSwallowed(w, q) ==
    R(w, Reply([q EXCEPT !.tried = @ + 1], 200, "sent", q.tok))

\* transporter.sendMail(mailOptions) threw: the handler's catch forwards the
\* error; the send is not tried again.
MailFailed(w, q) == R(w, Thrown([q EXCEPT !.tried = @ + 1], "sendMail failed"))

\* bcrypt.compare found the password wrong for Account id.
Guessed(w, id) == [w EXCEPT !.guesses[id] = @ + 1]

\* Account id's counter is cleared (password matched, or password reset).
Cleared(w, id) == [w EXCEPT !.guesses[id] = 0]

\* ------------------------------------------------------------- signUp

\* Mutant: the existing-Account check comes first.
signUpCheckConflictFirst(q, existingUser) ==
    IF existingUser # 0
    THEN Fail(q, 409, "User already exists")
    ELSE IF q.confirmPassword = Absent
    THEN Reply(q, 400, "Confirm password is empty", NoToken)
    ELSE IF q.password # q.confirmPassword
    THEN Fail(q, 400, "Passwords do not match")
    ELSE q

\* Mutant: password and confirmPassword are not compared.
signUpCheckNoMatch(q, existingUser) ==
    IF q.confirmPassword = Absent
    THEN Reply(q, 400, "Confirm password is empty", NoToken)
    ELSE IF existingUser # 0
    THEN Fail(q, 409, "User already exists")
    ELSE q

\* Mutant: a password mismatch is answered directly, like a missing
\* confirmPassword.
signUpCheckDirect(q, existingUser) ==
    IF q.confirmPassword = Absent
    THEN Reply(q, 400, "Confirm password is empty", NoToken)
    ELSE IF existingUser # 0
    THEN Fail(q, 409, "User already exists")
    ELSE IF q.password # q.confirmPassword
    THEN Reply(q, 400, "Passwords do not match", NoToken)
    ELSE q

\* The checks of lines 16-35, in order; q itself when they all pass.
signUpCheck(q, existingUser) ==
    IF q.confirmPassword = Absent
    THEN Reply(q, 400, "Confirm password is empty", NoToken)
    ELSE IF existingUser # 0
    THEN Fail(q, 409, "User already exists")
    ELSE IF q.password # q.confirmPassword
    THEN Fail(q, 400, "Passwords do not match")
    ELSE q

signUpStep(w, q, t) ==
    CASE q.pc = "findOne" ->
            LET checked == signUpCheck(q, FindOne(w.users, q.email)) IN
            IF checked.pc = "done"
            THEN R(w, checked)
            ELSE R(w, [q EXCEPT !.pc = "create",
                                !.user = NewDoc(q.name, q.email, Hash(q.password))])
      [] q.pc = "create" ->
            IF DuplicateKey(w.users, q.email)
            THEN R(w, Thrown(q, "E11000 duplicate key"))
            ELSE LET id == Len(w.users) + 1 IN
                 R([w EXCEPT !.users = Append(@, q.user), !.guesses = Append(@, 0)],
                   [q EXCEPT !.pc = "sendMail", !.uid = id,
                             !.tok = Sign(id, JWT_EXPIRES_IN, t, "signUp")])
      [] q.pc = "sendMail" ->
            IF q.mailOk
            THEN LET m == SendMail(w, q) IN
                 R(m.w, Reply(m.q, 201, "User created successfully", q.tok))
            ELSE MailFailed(w, q)

\* ------------------------------------------------------------- signIn
\* createLoginLog(status, reason)
LogEntry(q, status, reason) ==
    [userId |-> q.uid, name |-> q.user.name, email |-> q.email, status |-> status,
     ipAddress |-> Null, userAgent |-> Null, reason |-> reason]

\* LoginLogs.create(entry): one more document in the collection.
Create(ls, entry) == ls (+) SetToBag({entry})

\* `${5 - user.loginAttempts} attempts remaining`
Remaining(n) == 5 - n

\* Mutant: the lock is set one attempt late.
signInWrongLate(q) ==
    LET q1 == Assign(q, "loginAttempts", q.user.loginAttempts + 1) IN
    IF q1.user.loginAttempts > LockThreshold
    THEN [Assign(q1, "isLocked", TRUE) EXCEPT !.pc = "saveLock"]
    ELSE [q1 EXCEPT !.pc = "saveFailed"]

\* The wrong-password branch: count the attempt, lock at the threshold.
signInWrong(q) ==
    LET q1 == Assign(q, "loginAttempts", q.user.loginAttempts + 1) IN
    IF q1.user.loginAttempts >= LockThreshold
    THEN [Assign(q1, "isLocked", TRUE) EXCEPT !.pc = "saveLock"]
    ELSE [q1 EXCEPT !.pc = "saveFailed"]

\* Mutant: the counter is not cleared.
signInRightKeep(q, t) ==
    [q EXCEPT !.pc = "logSuccess", !.tok = Sign(q.uid, JWT_EXPIRES_IN, t, "signIn")]

\* The matching-password branch: clear the counter if it is set.
signInRight(q, t) ==
    IF q.user.loginAttempts > 0
    THEN [Assign(q, "loginAttempts", 0) EXCEPT !.pc = "saveReset"]
    ELSE [q EXCEPT !.pc = "logSuccess",
                   !.tok = Sign(q.uid, JWT_EXPIRES_IN, t, "signIn")]

\* Mutant: the locked check is missing.
signInGuardNoLock(doc) ==
    IF ~doc.isVerified THEN "Please verify your email before signing in"
    ELSE "pass"

\* Mutant: the verified check is missing.
signInGuardNoVerified(doc) ==
    IF doc.isLocked THEN "Account is locked. Please contact administrator"
    ELSE "pass"

\* The guards on the Account found, in order: the message of the
\* ForbiddenError (403) raised, or "pass".
signInGuard(doc) ==
    IF ~doc.isVerified THEN "Please verify your email before signing in"
    ELSE IF doc.isLocked THEN "Account is locked. Please contact administrator"
    ELSE "pass"

signInStep(w, q, t) ==
    CASE q.pc = "findOne" ->
            LET id == FindOne(w.users, q.email) IN
            IF id = 0
            THEN R(w, Fail(q, 404, "User not found"))
            ELSE IF signInGuard(w.users[id]) # "pass"
            THEN R(w, Fail(q, 403, signInGuard(w.users[id])))
            ELSE IF ~Compare(q.password, w.users[id].password)
            THEN R(Guessed(w, id), signInWrong(Load(q, w.users, id)))
            ELSE R(Cleared(w, id), signInRight(Load(q, w.users, id), t))
      [] q.pc = "saveLock" ->
            R([w EXCEPT !.users = Save(@, q.uid, q.user, q.dirty)],
              Fail(q, 403, "Account locked due to multiple failed attempts. Please contact administrator"))
      [] q.pc = "saveFailed" ->
            R([w EXCEPT !.users = Save(@, q.uid, q.user, q.dirty)],
              [q EXCEPT !.pc = "logFailed", !.dirty = {}])
      [] q.pc = "logFailed" ->
            R([w EXCEPT !.logs = Create(@, LogEntry(q, "failed", "Invalid password"))],
              [Fail(q, 401, "Invalid password") EXCEPT
                    !.resp.remaining = Remaining(q.user.loginAttempts)])
      [] q.pc = "saveReset" ->
            R([w EXCEPT !.users = Save(@, q.uid, q.user, q.dirty)],
              [q EXCEPT !.pc = "logSuccess", !.dirty = {},
                        !.tok = Sign(q.uid, JWT_EXPIRES_IN, t, "signIn")])
      [] q.pc = "logSuccess" ->
            R([w EXCEPT !.logs = Create(@, LogEntry(q, "success", Null)),
                        !.tokens = @ \cup {q.tok}],
              Reply(q, 200, "User signed in successfully", q.tok))

\* ------------------------------------------------------------- signOut
signOutStep(w, q, t) == R(w, Reply(q, 200, "User signed out successfully", NoToken))

\* ------------------------------------------------------------- forgotPassword
forgotPasswordStep(w, q, t) ==
    CASE q.pc = "findOne" ->
            LET id == FindOne(w.users, q.email) IN
            IF q.email = Absent
            THEN R(w, Fail(q, 401, "Email is required"))
            ELSE IF id = 0
            THEN R(w, Fail(q, 404, "User not found"))
            ELSE R(w, [Load(q, w.users, id) EXCEPT
                         !.pc = "sendMail",
                         !.tok = Sign(id, ResetExpiresIn, t, "forgotPassword")])
      [] q.pc = "sendMail" ->
            IF q.mailOk
            THEN LET m == SendMail(w, q) IN
                 R(m.w, Reply(m.q, 200, "Password reset link sent to email", q.tok))
            ELSE MailFailed(w, q)

\* ------------------------------------------------------------- resetPassword
\* Mutant: the lock is not cleared.
resetPasswordAssignKeepLock(q) ==
    LET q1 == [q EXCEPT !.user = [@ EXCEPT !.password = Hash(q.password)],
                        !.dirty = @ \cup {"password"}]
    IN Assign(q1, "loginAttempts", 0)

\* user.password = hashedPassword; user.loginAttempts = 0; user.isLocked =
\* false.  The new hash has a fresh salt, so the password path is modified
\* even when the plaintext is the one already stored.
resetPasswordAssign(q) ==
    LET q1 == [q EXCEPT !.user = [@ EXCEPT !.password = Hash(q.password)],
                        !.dirty = @ \cup {"password"}]
    IN Assign(Assign(q1, "loginAttempts", 0), "isLocked", FALSE)

resetPasswordStep(w, q, t) ==
    CASE q.pc = "findById" ->
            LET id == FindById(w.users, q.token.userId) IN
            IF q.token = NoToken \/ q.password = Absent
            THEN R(w, Fail(q, 400, "Token and password are required"))
            ELSE IF ~Verify(q.token, t)
            THEN R(w, Fail(q, 401, "Invalid or expired token"))
            ELSE IF id = 0
            THEN R(w, Fail(q, 404, "User not found"))
            ELSE R(w, [resetPasswordAssign(Load(q, w.users, id)) EXCEPT !.pc = "save"])
      [] q.pc = "save" ->
            R(Cleared([w EXCEPT !.users = Save(@, q.uid, q.user, q.dirty)], q.uid),
              Reply(q, 200, "Password reset successful", NoToken))

\* ------------------------------------------------------------- verifyEmail
\* Mutant: no "already verified" branch.
verifyEmailStepAgain(w, q, t) ==
    CASE q.pc = "findById" ->
            LET id == FindById(w.users, q.token.userId) IN
            IF ~Verify(q.token, t)
            THEN R(w, Fail(q, 401, "Invalid or expired verification token"))
            ELSE IF id = 0
            THEN R(w, Fail(q, 404, "User not found"))
            ELSE R(w, [Assign(Load(q, w.users, id), "isVerified", TRUE) EXCEPT !.pc = "save"])
      [] q.pc = "save" ->
            R([w EXCEPT !.users = Save(@, q.uid, q.user, q.dirty)],
              Reply(q, 200, "Email verified successfully", NoToken))

verifyEmailStep(w, q, t) ==
    CASE q.pc = "findById" ->
            LET id == FindById(w.users, q.token.userId) IN
            IF ~Verify(q.token, t)
            THEN R(w, Fail(q, 401, "Invalid or expired verification token"))
            ELSE IF id = 0
            THEN R(w, Fail(q, 404, "User not found"))
            ELSE IF w.users[id].isVerified
            THEN R(w, [Reply(q, 400, "Email already verified", NoToken) EXCEPT !.uid = id])
            ELSE R(w, [Assign(Load(q, w.users, id), "isVerified", TRUE) EXCEPT !.pc = "save"])
      [] q.pc = "save" ->
            R([w EXCEPT !.users = Save(@, q.uid, q.user, q.dirty)],
              Reply(q, 200, "Email verified successfully", NoToken))

\* ------------------------------------------------------------- dispatch
Step(w, q, t) ==
    CASE q.op = "signUp" -> signUpStep(w, q, t)
      [] q.op = "signIn" -> signInStep(w, q, t)
      [] q.op = "signOut" -> signOutStep(w, q, t)
      [] q.op = "forgotPassword" -> forgotPasswordStep(w, q, t)
      [] q.op = "resetPassword" -> resetPasswordStep(w, q, t)
      [] q.op = "verifyEmail" -> verifyEmailStep(w, q, t)

\* A handler run from its first step to its response with no other request
\* in between.
RECURSIVE Run(_, _, _)
Run(w, q, t) ==
    IF q.pc = "done" THEN R(w, q)
    ELSE LET r == Step(w, q, t) IN Run(r.w, r.q, t)

\* ------------------------------------------------------------- the system
World == [users |-> users, logs |-> logs, tokens |-> tokens, guesses |-> guesses]

Commit(w) ==
    /\ users' = w.users
    /\ logs' = w.logs
    /\ tokens' = w.tokens
    /\ guesses' = w.guesses

NoStreak == [uid |-> 0, n |-> 0]

\* The run of consecutive wrong-password sign-ins on one Account that began
\* on the Account fresh (verified, unlocked, loginAttempts = 0), with no
\* other request in between; us is the store the request found.
NextStreak(us, q) ==
    LET id == FindOne(us, q.email) IN
    IF q.op = "signIn" /\ id # 0 /\ ~Compare(q.password, us[id].password)
    THEN IF us[id].isVerified /\ ~us[id].isLocked /\ us[id].loginAttempts = 0
         THEN [uid |-> id, n |-> 1]
         ELSE IF streak.uid = id /\ streak.n \in 1..(LockThreshold - 1)
         THEN [uid |-> id, n |-> streak.n + 1]
         ELSE NoStreak
    ELSE NoStreak

Init ==
    /\ users = <<>>
    /\ logs = EmptyBag
    /\ tokens = {}
    /\ guesses = <<>>
    /\ now = 0
    /\ reqs = [c \in Clients |-> Idle]
    /\ streak = NoStreak

\* The tokens a client can present: one it was handed, a forgery, or none.
TokenInputs == tokens \cup {ForgedToken}

\* A request served from its first step to its response.
Serve(q) ==
    LET r == Run(World, q, now) IN
    /\ Commit(r.w)
    /\ streak' = NextStreak(users, q)
    /\ UNCHANGED <<now, reqs>>

signUp ==
    \E n \in Names, e \in SignUpEmails, p \in Passwords,
       c \in Passwords \cup {Absent}, ok \in BOOLEAN :
        /\ Len(users) < MaxUsers
        /\ Serve(SignUpReq(n, e, p, c, ok))

signIn ==
    \E e \in Emails, p \in Passwords :
        /\ BagCardinality(logs) < MaxLogs
        /\ Serve(SignInReq(e, p))

signOut ==
    Serve(SignOutReq)

forgotPassword ==
    \E e \in Emails \cup {Absent}, ok \in BOOLEAN :
        Serve(ForgotPasswordReq(e, ok))

resetPassword ==
    \E tk \in TokenInputs \cup {NoToken}, p \in Passwords \cup {Absent} :
        Serve(ResetPasswordReq(tk, p))

verifyEmail ==
    \E tk \in TokenInputs :
        Serve(VerifyEmailReq(tk))

Tick ==
    /\ now < MaxTime
    /\ now' = now + 1
    /\ UNCHANGED <<users, logs, tokens, guesses, reqs, streak>>

Next ==
    \/ signUp
    \/ signIn
    \/ signOut
    \/ forgotPassword
    \/ resetPassword
    \/ verifyEmail
    \/ Tick

Spec == Init /\ [][Next]_vars

\* ------------------------------------------------------------- interleaved
\* A handler suspended at an await past its first: it no longer reads
\* req.body and req.params (every handler reads them before that await).
\* Whether the transporter accepts a mail is settled when the send resumes.
Suspended(q) ==
    [q EXCEPT !.name = Null, !.password = Null, !.confirmPassword = Null,
              !.token = NoToken, !.mailOk = TRUE]

\* One step of client c's request q: the awaited call and the code up to
\* the next one.  A request that has responded leaves its slot.
Advance(c, q) ==
    LET r == Step(World, q, now) IN
    /\ Commit(r.w)
    /\ reqs' = [reqs EXCEPT ![c] = IF r.q.pc = "done" THEN Idle ELSE Suspended(r.q)]
    /\ UNCHANGED <<now, streak>>

\* A client with no request in flight sends q.
Begin(c, q) == reqs[c] = Idle /\ Advance(c, q)

\* A request in flight resumes after its await: one action per handler.
signUpBegin ==
    \E c \in DOMAIN reqs, n \in Names, e \in SignUpEmails, p \in Passwords,
       cp \in Passwords \cup {Absent} :
        /\ Len(users) < MaxUsers
        /\ Begin(c, SignUpReq(n, e, p, cp, TRUE))

signInBegin ==
    \E c \in DOMAIN reqs, e \in Emails, p \in Passwords :
        /\ BagCardinality(logs) < MaxLogs
        /\ Begin(c, SignInReq(e, p))

signOutBegin ==
    \E c \in DOMAIN reqs :
        Begin(c, SignOutReq)

forgotPasswordBegin ==
    \E c \in DOMAIN reqs, e \in Emails \cup {Absent} :
        Begin(c, ForgotPasswordReq(e, TRUE))

resetPasswordBegin ==
    \E c \in DOMAIN reqs, tk \in TokenInputs \cup {NoToken}, p \in Passwords \cup {Absent} :
        Begin(c, ResetPasswordReq(tk, p))

verifyEmailBegin ==
    \E c \in DOMAIN reqs, tk \in TokenInputs :
        Begin(c, VerifyEmailReq(tk))

signUpResume ==
    \E c \in DOMAIN reqs, ok \in BOOLEAN :
        reqs[c].op = "signUp" /\ Advance(c, [reqs[c] EXCEPT !.mailOk = ok])

signInResume ==
    \E c \in DOMAIN reqs : reqs[c].op = "signIn" /\ Advance(c, reqs[c])

forgotPasswordResume ==
    \E c \in DOMAIN reqs, ok \in BOOLEAN :
        reqs[c].op = "forgotPassword" /\ Advance(c, [reqs[c] EXCEPT !.mailOk = ok])

resetPasswordResume ==
    \E c \in DOMAIN reqs : reqs[c].op = "resetPassword" /\ Advance(c, reqs[c])

verifyEmailResume ==
    \E c \in DOMAIN reqs : reqs[c].op = "verifyEmail" /\ Advance(c, reqs[c])

NextConc ==
    \/ signUpBegin
    \/ signInBegin
    \/ signOutBegin
    \/ forgotPasswordBegin
    \/ resetPasswordBegin
    \/ verifyEmailBegin
    \/ signUpResume
    \/ signInResume
    \/ forgotPasswordResume
    \/ resetPasswordResume
    \/ verifyEmailResume

SpecConc == Init /\ [][NextConc]_vars

\* ============================================================= claims
\* The response and the world a request would produce, served now.
Outcome(q) == Run(World, q, now)

Ids == 1..Len(users)

FailedEntry(i, e) ==
    [userId |-> i, name |-> users[i].name, email |-> e, status |-> "failed",
     ipAddress |-> Null, userAgent |-> Null, reason |-> "Invalid password"]

SuccessEntry(i, e) ==
    [userId |-> i, name |-> users[i].name, email |-> e, status |-> "success",
     ipAddress |-> Null, userAgent |-> Null, reason |-> Null]

Active(doc) == doc.isVerified /\ ~doc.isLocked

\* The step is a resetPassword call for Account i that succeeds.
ResetSucceeds(i) ==
    \E tk \in TokenInputs, p \in Passwords :
        tk.userId = i /\ Verify(tk, now) /\ Serve(ResetPasswordReq(tk, p))

\* The step is a signIn call for Account i with the matching password.
SignInSucceeds(i) ==
    \E p \in Passwords :
        /\ Active(users[i]) /\ Compare(p, users[i].password)
        /\ BagCardinality(logs) < MaxLogs
        /\ Serve(SignInReq(users[i].email, p))

\* C1: from a fresh verified Account, the k-th of five consecutive
\* wrong-password signIn calls (k = 1..4) returns 401 through next with
\* 5 - k attempts remaining and creates exactly one failed LoginLogEntry with
\* reason "Invalid password"; the 5th sets isLocked, returns 403 and creates
\* no LoginLogEntry.
C1_FiveStrikes ==
    \A e \in Emails, p \in Passwords :
        LET q == SignInReq(e, p)
            i == FindOne(users, e)
            k == NextStreak(users, q).n
            r == Outcome(q)
        IN  /\ k \in 1..4 =>
                /\ r.q.resp.code = 401 /\ r.q.resp.via = "next"
                /\ r.q.resp.msg = "Invalid password"
                /\ r.q.resp.remaining = 5 - k
                /\ r.w.logs = logs (+) SetToBag({FailedEntry(i, e)})
                /\ r.w.users[i].loginAttempts = k
                /\ ~r.w.users[i].isLocked
            /\ k = 5 =>
                /\ r.q.resp.code = 403 /\ r.q.resp.via = "next"
                /\ r.w.users[i].isLocked
                /\ r.w.logs = logs

\* The fifth wrong attempt of a run has been served: the Account is locked
\* and the four attempts before it are in the log.
C1_Witness ==
    /\ streak.n = 5
    /\ users[streak.uid].isLocked
    /\ CopiesIn(FailedEntry(streak.uid, users[streak.uid].email), logs) >= 4

\* C2: every Account with isLocked = true has loginAttempts >= 5.
C2_LockedImpliesAttempts ==
    \A i \in Ids : users[i].isLocked => users[i].loginAttempts >= 5

\* C3: a signIn call for a locked Account returns 403 whatever the password,
\* changes neither the Account nor the log and hands out no token; and
\* isLocked goes from true to false only in a resetPassword call for that
\* Account that succeeds.
C3_Blocked ==
    \A i \in Ids, p \in Passwords :
        users[i].isLocked =>
            LET r == Outcome(SignInReq(users[i].email, p)) IN
            /\ r.q.resp.code = 403 /\ r.q.resp.via = "next"
            /\ r.q.resp.token = NoToken
            /\ r.w = World

C3_OnlyResetUnlocks ==
    \A i \in Ids :
        users[i].isLocked /\ ~users'[i].isLocked => ResetSucceeds(i)

C3_LockoutPermanent == []C3_Blocked /\ [][C3_OnlyResetUnlocks]_vars

\* A locked Account, for which a signIn call with the matching password is
\* answered "Account is locked".
C3_Witness ==
    \E i \in Ids, p \in Passwords :
        /\ users[i].isLocked
        /\ Compare(p, users[i].password)
        /\ Outcome(SignInReq(users[i].email, p)).q.resp.msg
              = "Account is locked. Please contact administrator"

\* C4: signIn with the matching password on a verified, unlocked Account with
\* loginAttempts in 1..4 sets loginAttempts to 0, returns 200 with a session
\* token and creates exactly one LoginLogEntry, of status success; and
\* loginAttempts goes from positive to 0 only in such a signIn call or in a
\* resetPassword call that succeeds.
C4_Success ==
    \A i \in Ids, p \in Passwords :
        (/\ Active(users[i]) /\ users[i].loginAttempts \in 1..4
         /\ Compare(p, users[i].password)) =>
            LET r == Outcome(SignInReq(users[i].email, p)) IN
            /\ r.w.users[i].loginAttempts = 0
            /\ r.q.resp.code = 200 /\ r.q.resp.via = "res"
            /\ r.q.resp.token.userId = i
            /\ r.q.resp.token.sig = JWT_SECRET /\ r.q.resp.token.exp > now
            /\ r.w.logs = logs (+) SetToBag({SuccessEntry(i, users[i].email)})

C4_OnlySuccessClears ==
    \A i \in Ids :
        users[i].loginAttempts > 0 /\ users'[i].loginAttempts = 0 =>
            SignInSucceeds(i) \/ ResetSucceeds(i)

C4_SuccessClearsAttempts == []C4_Success /\ [][C4_OnlySuccessClears]_vars

\* An Account with failed attempts on it, for which a signIn call with the
\* matching password is answered 200.
C4_Witness ==
    \E i \in Ids, p \in Passwords :
        /\ Active(users[i]) /\ users[i].loginAttempts \in 1..4
        /\ Compare(p, users[i].password)
        /\ Outcome(SignInReq(users[i].email, p)).q.resp.code = 200

\* C5: resetPassword with a valid token and a new password P that differs
\* from the stored one succeeds, leaving loginAttempts = 0 and isLocked =
\* false, locked before or not; on a verified Account the next signIn with
\* P returns 200 and the next signIn with the old password returns 401.
C5_RoundTrip ==
    \A tk \in TokenInputs, P \in Passwords :
        LET i == tk.userId IN
        (Verify(tk, now) /\ i \in Ids /\ ~Compare(P, users[i].password)) =>
            LET r == Outcome(ResetPasswordReq(tk, P))
                e == users[i].email
            IN  /\ r.q.resp.code = 200
                /\ r.w.users[i].loginAttempts = 0
                /\ ~r.w.users[i].isLocked
                /\ r.w.users[i].isVerified =>
                      /\ Run(r.w, SignInReq(e, P), now).q.resp.code = 200
                      /\ \A old \in Passwords :
                            Compare(old, users[i].password) =>
                                Run(r.w, SignInReq(e, old), now).q.resp.code = 401

\* A locked, verified Account and a valid token for it, with which a reset
\* to another password succeeds.
C5_Witness ==
    \E tk \in tokens, P \in Passwords :
        /\ Verify(tk, now) /\ tk.userId \in Ids
        /\ users[tk.userId].isLocked /\ users[tk.userId].isVerified
        /\ ~Compare(P, users[tk.userId].password)
        /\ Outcome(ResetPasswordReq(tk, P)).q.resp.code = 200

\* C6: a signIn call for an unverified Account returns 403 whether the
\* password matches or not, hands out no token and changes neither the
\* Account nor the log; and a signIn with the credentials of a signUp that
\* has just returned 201 returns 403.
C6_UnverifiedBlocked ==
    /\ \A i \in Ids, p \in Passwords :
            ~users[i].isVerified =>
                LET r == Outcome(SignInReq(users[i].email, p)) IN
                /\ r.q.resp.code = 403 /\ r.q.resp.via = "next"
                /\ r.q.resp.token = NoToken
                /\ r.w = World
    /\ \A n \in Names, e \in SignUpEmails, p \in Passwords, ok \in BOOLEAN :
            LET r == Outcome(SignUpReq(n, e, p, p, ok)) IN
            r.q.resp.code = 201 =>
                /\ ~r.w.users[r.q.uid].isVerified
                /\ Run(r.w, SignInReq(e, p), now).q.resp.code = 403

\* An unverified Account, for which a signIn call with the matching
\* password is answered "Please verify your email".
C6_Witness ==
    \E i \in Ids, p \in Passwords :
        /\ ~users[i].isVerified
        /\ Compare(p, users[i].password)
        /\ Outcome(SignInReq(users[i].email, p)).q.resp.msg
              = "Please verify your email before signing in"

\* C7: verifyEmail with a token that is forged, absent or expired returns
\* 401 and changes nothing; with a valid token for an unverified Account it
\* sets isVerified and returns 200, and the same call again is answered
\* 400 "Email already verified" directly (not through next) and changes
\* nothing, as is every call with a valid token for a verified Account.
C7_VerifyEmail ==
    \A tk \in TokenInputs \cup {NoToken} :
        LET r == Outcome(VerifyEmailReq(tk))
            i == tk.userId
        IN  /\ ~Verify(tk, now) =>
                /\ r.q.resp.code = 401 /\ r.q.resp.via = "next"
                /\ r.w = World
            /\ (Verify(tk, now) /\ i \in Ids /\ ~users[i].isVerified) =>
                /\ r.q.resp.code = 200 /\ r.q.resp.via = "res"
                /\ r.w = [World EXCEPT !.users[i].isVerified = TRUE]
                /\ LET r2 == Run(r.w, VerifyEmailReq(tk), now) IN
                   /\ r2.q.resp.code = 400 /\ r2.q.resp.via = "res"
                   /\ r2.q.resp.msg = "Email already verified"
                   /\ r2.w = r.w
            /\ (Verify(tk, now) /\ i \in Ids /\ users[i].isVerified) =>
                /\ r.q.resp.code = 400 /\ r.q.resp.via = "res"
                /\ r.q.resp.msg = "Email already verified"
                /\ r.w = World

\* An unverified Account with an expired token and a valid token in its
\* owner's hands: the first is answered 401, the second 200.
C7_Witness ==
    \E t1 \in tokens, t2 \in tokens :
        /\ ~Verify(t1, now) /\ Verify(t2, now)
        /\ t2.userId \in Ids /\ ~users[t2.userId].isVerified
        /\ Outcome(VerifyEmailReq(t1)).q.resp.code = 401
        /\ Outcome(VerifyEmailReq(t2)).q.resp.code = 200

\* C8 as stated: a signUp with the email of an existing Account returns 409
\* and creates no Account, whatever name, password and confirmPassword.
C8_AlwaysConflict ==
    \A n \in Names, e \in SignUpEmails, p \in Passwords,
       c \in Passwords \cup {Absent}, ok \in BOOLEAN :
        FindOne(users, e) # 0 =>
            LET r == Outcome(SignUpReq(n, e, p, c, ok)) IN
            r.q.resp.code = 409 /\ r.w.users = users

\* C8 amended: a signUp with the email of an existing Account creates no
\* Account; it returns 409 through next when confirmPassword is present
\* (equal to password or not) and is answered 400 "Confirm password is
\* empty" directly when confirmPassword is absent.
C8_Conflict ==
    \A n \in Names, e \in SignUpEmails, p \in Passwords,
       c \in Passwords \cup {Absent}, ok \in BOOLEAN :
        FindOne(users, e) # 0 =>
            LET r == Outcome(SignUpReq(n, e, p, c, ok)) IN
            /\ r.w = World
            /\ c # Absent => r.q.resp.code = 409 /\ r.q.resp.via = "next"
            /\ c = Absent =>
                /\ r.q.resp.code = 400 /\ r.q.resp.via = "res"
                /\ r.q.resp.msg = "Confirm password is empty"

\* An Account exists, and a signUp with its email and matching passwords is
\* answered 409.
C8_Witness ==
    \E i \in Ids, p \in Passwords :
        Outcome(SignUpReq("A", users[i].email, p, p, TRUE)).q.resp.code = 409

\* C9 as stated: a signUp whose confirmPassword is absent or differs from
\* password returns 400, creates no Account, hands out no token and sends
\* no mail.
C9_AlwaysValidation ==
    \A n \in Names, e \in SignUpEmails, p \in Passwords,
       c \in Passwords \cup {Absent}, ok \in BOOLEAN :
        c # p =>
            LET r == Outcome(SignUpReq(n, e, p, c, ok)) IN
            /\ r.q.resp.code = 400
            /\ r.w = World /\ r.q.resp.token = NoToken /\ r.q.sent = 0

\* C9 amended: a signUp whose confirmPassword is absent or differs from
\* password creates no Account, hands out no token and sends no mail; it
\* returns 400, except that a present, differing confirmPassword with the
\* email of an existing Account returns 409.
C9_Validation ==
    \A n \in Names, e \in SignUpEmails, p \in Passwords,
       c \in Passwords \cup {Absent}, ok \in BOOLEAN :
        c # p =>
            LET r == Outcome(SignUpReq(n, e, p, c, ok)) IN
            /\ r.w = World /\ r.q.resp.token = NoToken /\ r.q.sent = 0
            /\ r.q.resp.code = IF c # Absent /\ FindOne(users, e) # 0 THEN 409 ELSE 400

\* An Account exists: a signUp with its email is answered 400 without a
\* confirmPassword and 409 with a differing one.
C9_Witness ==
    \E i \in Ids, p \in Passwords, c \in Passwords :
        /\ c # p
        /\ Outcome(SignUpReq("A", users[i].email, p, Absent, TRUE)).q.resp.code = 400
        /\ Outcome(SignUpReq("A", users[i].email, p, c, TRUE)).q.resp.code = 409

\* C10: under every interleaving of requests no two Accounts have the same
\* email, no Account is removed and no Account's email changes.
C10_Unique ==
    \A i \in Ids, j \in Ids : users[i].email = users[j].email => i = j

C10_EmailKept ==
    /\ Len(users') >= Len(users)
    /\ \A i \in Ids : users'[i].email = users[i].email

C11_OneEntryPerCall ==
    \A e \in Emails, p \in Passwords :
        BagCardinality(Outcome(SignInReq(e, p)).w.logs) = BagCardinality(logs) + 1

\* Client c's signIn request has compared a wrong password and is suspended
\* before the save of the counter it raised.
SavePending(c) ==
    reqs[c].op = "signIn" /\ reqs[c].pc \in {"saveFailed", "saveLock"}

\* C12: the save of a wrong-password signIn writes the loginAttempts it
\* computed from its own read, whatever the store holds by then; so of two
\* such requests that read the same Account before either saved, the second
\* save repeats the first and loginAttempts rises by 1, not by 2.
C12_StaleWrite ==
    [][\A c \in DOMAIN reqs :
          (SavePending(c) /\ reqs'[c] # reqs[c]) =>
              /\ users'[reqs[c].uid].loginAttempts = reqs[c].user.loginAttempts
              /\ \A d \in DOMAIN reqs \ {c} :
                    (SavePending(d) /\ reqs[d].uid = reqs[c].uid
                       /\ reqs[d].user.loginAttempts = reqs[c].user.loginAttempts) =>
                        users'[reqs[c].uid].loginAttempts = reqs[d].user.loginAttempts
    ]_vars

\* Two wrong passwords have been compared for an unlocked Account, both
\* requests have completed, and loginAttempts is 1.
C12_LostUpdate ==
    /\ \A c \in DOMAIN reqs : reqs[c] = Idle
    /\ \E i \in Ids :
          guesses[i] = 2 /\ users[i].loginAttempts = 1 /\ ~users[i].isLocked

\* Every request a client can send in the current state.
Requests ==
    {SignUpReq(n, e, p, c, ok) :
        n \in Names, e \in SignUpEmails, p \in Passwords,
        c \in Passwords \cup {Absent}, ok \in BOOLEAN}
    \cup {SignInReq(e, p) : e \in Emails, p \in Passwords}
    \cup {SignOutReq}
    \cup {ForgotPasswordReq(e, ok) : e \in Emails \cup {Absent}, ok \in BOOLEAN}
    \cup {ResetPasswordReq(tk, p) :
            tk \in TokenInputs \cup {NoToken}, p \in Passwords \cup {Absent}}
    \cup {VerifyEmailReq(tk) : tk \in TokenInputs \cup {NoToken}}

AlreadyVerified(q, resp) ==
    q.op = "verifyEmail" /\ resp.code = 400 /\ resp.msg = "Email already verified"

ConfirmEmpty(q, resp) ==
    q.op = "signUp" /\ resp.code = 400 /\ resp.msg = "Confirm password is empty"

\* C13 as stated: in all six handlers every failure response is an error
\* forwarded through next, except verifyEmail's "Email already verified",
\* which is the only failure written directly.
C13_OnlyAlreadyVerifiedDirect ==
    \A q \in Requests :
        LET resp == Outcome(q).q.resp IN
        (resp.code >= 400 /\ resp.via # "next") => AlreadyVerified(q, resp)

\* The paths by which the handlers answer, in the current state.
ErrorPaths ==
    \A q \in Requests :
        LET resp == Outcome(q).q.resp IN
        /\ resp.via \in {"res", "next"}
        /\ resp.via = "next" => resp.code \in {400, 401, 403, 404, 409, 500}
        /\ resp.code < 400 => resp.via = "res"
        /\ (resp.code >= 400 /\ resp.via = "res") <=>
              (AlreadyVerified(q, resp) \/ ConfirmEmpty(q, resp))
        /\ (q.op = "signUp" /\ q.confirmPassword = Absent) => ConfirmEmpty(q, resp)

\* C13 amended: every handler answers every request; a success is written
\* directly; a failure the handler detects is an error with one of the
\* status codes 400, 401, 403, 404, 409 forwarded through next, and an
\* error thrown by the store or the mailer is forwarded through next as
\* thrown; the failures written directly are exactly verifyEmail's 400
\* "Email already verified" and signUp's 400 "Confirm password is empty".
C13_ErrorPaths == []ErrorPaths

\* A verified Account and a valid token for it: verifyEmail with it is
\* answered 400 directly, and so is a signUp without confirmPassword, while
\* a signUp with the Account's email and matching passwords fails through
\* next.
C13_Witness ==
    \E tk \in tokens, p \in Passwords :
        /\ Verify(tk, now) /\ tk.userId \in Ids /\ users[tk.userId].isVerified
        /\ LET r1 == Outcome(VerifyEmailReq(tk)).q.resp
               r2 == Outcome(SignUpReq("A", users[tk.userId].email, p, Absent, TRUE)).q.resp
               r3 == Outcome(SignUpReq("A", users[tk.userId].email, p, p, TRUE)).q.resp
           IN  /\ r1.code = 400 /\ r1.via = "res"
               /\ r2.code = 400 /\ r2.via = "res"
               /\ r3.code = 409 /\ r3.via = "next"

\* C14: when signUp has passed its checks and the mailer rejects the
\* verification mail, the request ends with an error through next (no 201,
\* no token handed out, one send tried, none accepted), the Account stays
\* in the store with isVerified = false, and a later signUp with the same
\* email returns 409; when forgotPassword's mail is rejected the request
\* ends with an error through next, one send tried and none accepted, and
\* store, log and tokens are unchanged.
C14_MailFailure ==
    /\ \A n \in Names, e \in SignUpEmails, p \in Passwords :
          FindOne(users, e) = 0 =>
              LET r == Outcome(SignUpReq(n, e, p, p, FALSE))
                  i == Len(users) + 1
              IN  /\ r.q.resp.via = "next" /\ r.q.resp.code >= 400
                  /\ r.q.resp.token = NoToken /\ r.w.tokens = tokens
                  /\ r.q.tried = 1 /\ r.q.sent = 0
                  /\ r.w.users = Append(users, NewDoc(n, e, Hash(p)))
                  /\ ~r.w.users[i].isVerified
                  /\ r.w.logs = logs
                  /\ \A n2 \in Names, p2 \in Passwords, ok \in BOOLEAN :
                        LET r2 == Run(r.w, SignUpReq(n2, e, p2, p2, ok), now) IN
                        /\ r2.q.resp.code = 409 /\ r2.q.resp.via = "next"
                        /\ r2.w = r.w
    /\ \A e \in Emails :
          FindOne(users, e) # 0 =>
              LET r == Outcome(ForgotPasswordReq(e, FALSE)) IN
              /\ r.q.resp.via = "next" /\ r.q.resp.code >= 400
              /\ r.q.resp.token = NoToken
              /\ r.q.tried = 1 /\ r.q.sent = 0
              /\ r.w = World

\* A signUp whose mail was rejected has been served: the Account is there,
\* unverified, and no token for it is in anyone's hands; a signUp with its
\* email returns 409 and a forgotPassword whose mail is rejected fails.
C14_Witness ==
    /\ Len(users) = 1 /\ tokens = {} /\ ~users[1].isVerified
    /\ \E p \in Passwords :
          Outcome(SignUpReq("A", users[1].email, p, p, TRUE)).q.resp.code = 409
    /\ Outcome(ForgotPasswordReq(users[1].email, FALSE)).q.resp.via = "next"

\* The store, log and tokens after k signIn calls with email e and password
\* p, one after the other, starting from w.
RECURSIVE SignIns(_, _, _, _)
SignIns(w, e, p, k) ==
    IF k = 0 THEN w ELSE SignIns(Run(w, SignInReq(e, p), now).w, e, p, k - 1)

\* C15: a token is not consumed by resetPassword.  With a validly signed,
\* unexpired token for an existing Account the call succeeds, replaces the
\* password, sets loginAttempts = 0 and isLocked = false and leaves the
\* token as it was; the same call with the same token succeeds again right
\* after; and when the Account was locked and, after the reset, five
\* wrong-password signIns lock it anew, the same token unlocks it again.
\* With an expired token the call returns 401 and changes nothing.
C15_Replay ==
    \A tk \in TokenInputs, P \in Passwords :
        LET i == tk.userId
            r == Outcome(ResetPasswordReq(tk, P))
        IN  /\ (Verify(tk, now) /\ i \in Ids) =>
                /\ r.q.resp.code = 200 /\ r.q.resp.via = "res"
                /\ Compare(P, r.w.users[i].password)
                /\ r.w.users[i].loginAttempts = 0 /\ ~r.w.users[i].isLocked
                /\ r.w.tokens = tokens
                /\ \A P2 \in Passwords :
                      LET r2 == Run(r.w, ResetPasswordReq(tk, P2), now) IN
                      /\ r2.q.resp.code = 200
                      /\ Compare(P2, r2.w.users[i].password)
                      /\ r2.w.users[i].loginAttempts = 0 /\ ~r2.w.users[i].isLocked
                /\ users[i].isLocked =>
                      \A P2 \in Passwords \ {P} :
                          LET again == SignIns(r.w, users[i].email, P2, LockThreshold)
                              r3 == Run(again, ResetPasswordReq(tk, P), now)
                          IN  /\ again.users[i].isLocked
                              /\ r3.q.resp.code = 200
                              /\ r3.w.users[i].loginAttempts = 0
                              /\ ~r3.w.users[i].isLocked
            /\ (tk \in tokens /\ now >= tk.exp) =>
                /\ r.q.resp.code = 401 /\ r.q.resp.via = "next"
                /\ r.w = World

\* Wrong passwords were counted against an Account and no signIn has
\* succeeded, yet loginAttempts is 0: a resetPassword has succeeded, with
\* the one token ever handed out; that token is unexpired and a
\* resetPassword with it succeeds once more.
C15_Witness ==
    \E tk \in tokens, P \in Passwords :
        LET i == tk.userId IN
        /\ tokens = {tk} /\ Verify(tk, now) /\ i \in Ids
        /\ CopiesIn(FailedEntry(i, users[i].email), logs) >= LockThreshold - 1
        /\ CopiesIn(SuccessEntry(i, users[i].email), logs) = 0
        /\ users[i].loginAttempts = 0 /\ ~users[i].isLocked
        /\ Outcome(ResetPasswordReq(tk, P)).q.resp.code = 200

\* The handlers that issue tokens.
Issuers == {"signUp", "signIn", "forgotPassword"}

\* C16: tokens carry no purpose.  resetPassword and verifyEmail accept every
\* validly signed, unexpired token bound to an existing Account, whichever
\* handler issued it (signUp's verification token, signIn's session token,
\* forgotPassword's reset token): resetPassword succeeds with it, verifyEmail
\* verifies the Account with it, and the outcome is the same as with a token
\* of any other issuer.
C16_NoPurpose ==
    \A tk \in tokens :
        LET i == tk.userId
            v == Outcome(VerifyEmailReq(tk))
        IN  (Verify(tk, now) /\ i \in Ids) =>
                /\ tk.iss \in Issuers
                /\ v.w.users[i].isVerified
                /\ v.q.resp.code = IF users[i].isVerified THEN 400 ELSE 200
                /\ \A iss \in Issuers \ {tk.iss} :
                      LET vo == Outcome(VerifyEmailReq([tk EXCEPT !.iss = iss])) IN
                      vo.w = v.w /\ vo.q.resp = v.q.resp
                /\ \A P \in Passwords :
                      LET r == Outcome(ResetPasswordReq(tk, P)) IN
                      /\ r.q.resp.code = 200
                      /\ Compare(P, r.w.users[i].password) /\ ~r.w.users[i].isLocked
                      /\ \A iss \in Issuers \ {tk.iss} :
                            LET ro == Outcome(ResetPasswordReq([tk EXCEPT !.iss = iss], P)) IN
                            ro.w = r.w /\ ro.q.resp = r.q.resp

\* An unverified Account with two unexpired tokens in its owner's hands:
\* resetPassword succeeds with the one signUp mailed, verifyEmail with the
\* one forgotPassword mailed.
C16_Witness ==
    \E t1 \in tokens, t2 \in tokens, P \in Passwords :
        /\ t1.iss = "signUp" /\ t2.iss = "forgotPassword"
        /\ t1.userId \in Ids /\ t2.userId = t1.userId
        /\ ~users[t1.userId].isVerified
        /\ Verify(t1, now) /\ Verify(t2, now)
        /\ Outcome(ResetPasswordReq(t1, P)).q.resp.code = 200
        /\ Outcome(VerifyEmailReq(t2)).q.resp.code = 200

\* C17: between two consecutive clearings of an Account's counter (a signIn
\* with the matching password, a resetPassword that succeeds) at most 5
\* signIn requests get a wrong password compared against the stored hash,
\* under any interleaving of requests.
C17_AtMostFiveGuesses ==
    \A i \in Ids : guesses[i] <= LockThreshold

\* ------------------------------------------------------------- three clients
\* A state that SpecConc reaches (RaceStartReached): one verified Account,
\* four wrong passwords counted and logged, the token of its signUp still
\* unexpired.  From it, three clients send signIn and resetPassword requests.
RaceClients == {"c1", "c2", "c3"}

RaceUser == [NewDoc("A", "a@x.com", Hash("p1")) EXCEPT
                !.isVerified = TRUE, !.loginAttempts = LockThreshold - 1]

RaceStore ==
    /\ users = <<RaceUser>>
    /\ logs = SetToBag({FailedEntry(1, "a@x.com")}) (+) SetToBag({FailedEntry(1, "a@x.com")})
                (+) SetToBag({FailedEntry(1, "a@x.com")}) (+) SetToBag({FailedEntry(1, "a@x.com")})
    /\ tokens = {Sign(1, JWT_EXPIRES_IN, 0, "signUp")}
    /\ guesses = <<LockThreshold - 1>>
    /\ now = 0
    /\ streak = NoStreak

RaceStartReached == RaceStore /\ \A c \in DOMAIN reqs : reqs[c] = Idle

InitRace == RaceStore /\ reqs = [c \in RaceClients |-> Idle]

\* No request is started once a counter has passed the threshold.
RaceOpen == \A i \in Ids : users[i].loginAttempts <= LockThreshold

signInRace ==
    \E c \in DOMAIN reqs, i \in Ids, p \in Passwords :
        /\ RaceOpen
        /\ BagCardinality(logs) < MaxLogs
        /\ Begin(c, SignInReq(users[i].email, p))

resetPasswordRace ==
    \E c \in DOMAIN reqs, tk \in tokens, p \in Passwords :
        /\ RaceOpen
        /\ Begin(c, ResetPasswordReq(tk, p))

NextRace ==
    \/ signInRace
    \/ signInResume
    \/ resetPasswordRace
    \/ resetPasswordResume

SpecRace == InitRace /\ [][NextRace]_vars

\* C18: in every reachable state, under any interleaving of requests, every
\* Account has 0 <= loginAttempts <= 5.
C18_AttemptsInRange ==
    \A i \in Ids : users[i].loginAttempts \in 0..LockThreshold

\* C19: isVerified is monotonic: under any interleaving of requests, no
\* step takes an Account from isVerified = true to isVerified = false, the
\* saves of requests that read the Account before it was verified included.
C19_VerifiedStays ==
    [][\A i \in Ids : users[i].isVerified => users'[i].isVerified]_vars

\* A resetPassword that read the Account unverified is suspended before its
\* save, and the Account has been verified in the meantime.
C19_Witness ==
    \E c \in DOMAIN reqs :
        /\ reqs[c].op = "resetPassword" /\ reqs[c].pc = "save"
        /\ ~reqs[c].user.isVerified
        /\ users[reqs[c].uid].isVerified

\* C20: signIn does not reveal whether the password is right when the email
\* has no Account or the Account is unverified or locked: two calls that
\* differ only in the password get the same response (404 "User not found",
\* 403 "Please verify ...", 403 "Account is locked ...", decided in that
\* order), compare no password and leave store, log and tokens as they were.
C20_NoPasswordOracle ==
    \A e \in Emails, p1 \in Passwords, p2 \in Passwords :
        LET i == FindOne(users, e)
            r1 == Outcome(SignInReq(e, p1))
            r2 == Outcome(SignInReq(e, p2))
            msg == IF i = 0 THEN "User not found"
                   ELSE IF ~users[i].isVerified
                   THEN "Please verify your email before signing in"
                   ELSE "Account is locked. Please contact administrator"
        IN  (i = 0 \/ ~Active(users[i])) =>
                /\ r1.q.resp = r2.q.resp
                /\ r1.q.resp.code = (IF i = 0 THEN 404 ELSE 403)
                /\ r1.q.resp.via = "next" /\ r1.q.resp.msg = msg
                /\ r1.q.resp.token = NoToken /\ r1.q.resp.remaining = NoResp.remaining
                /\ r1.w = World /\ r2.w = World

\* A locked Account: the signIn with its password and the signIn with a
\* wrong one are both answered 403, and the email of no Account is answered
\* 404 for both.
C20_Witness ==
    \E i \in Ids, p1 \in Passwords, p2 \in Passwords, e \in Emails :
        /\ users[i].isLocked
        /\ Compare(p1, users[i].password) /\ ~Compare(p2, users[i].password)
        /\ Outcome(SignInReq(users[i].email, p1)).q.resp.code = 403
        /\ Outcome(SignInReq(users[i].email, p2)).q.resp.code = 403
        /\ FindOne(users, e) = 0
        /\ Outcome(SignInReq(e, p1)).q.resp.code = 404

====
